---- MODULE Spec2Model ----
(***************************************************************************)
(* A model of src/fbnet-pytorch/model.py: MixedOp, FBNet (construction and *)
(* forward pass) and Trainer (train_w, train_t, decay_temperature, _step,  *)
(* search, save_theta).                                                    *)
(*                                                                         *)
(* Numbers.  Latencies, theta values, cross-entropy values are integers;   *)
(* Gumbel-Softmax weights and everything computed from them are exact      *)
(* rationals [n, d] in lowest terms.  The temperature is an IEEE-754       *)
(* binary64 value restricted to zero and the powers of two, on which       *)
(* multiplication is computed exactly as the hardware does (underflow      *)
(* below the smallest subnormal rounds to zero).                           *)
(*                                                                         *)
(* Text.  A line of a file is a sequence of one-character strings.         *)
(***************************************************************************)
EXTENDS Integers, Sequences, FiniteSets, TLC

\* ------------------------------------------------------------------------
\* Bounds of the model
\* ------------------------------------------------------------------------
MaxBatch == 2
NoiseSeeds == 2
MaxCalls == 3
MaxData == 3
MaxStartW == 2
MaxTotalEpoch == 2
MaxLogFreq == 2

\* ------------------------------------------------------------------------
\* Program constants
\* ------------------------------------------------------------------------
\* assert len(self.theta) == 22
NumGroups == 22
\* exponent of the smallest positive binary64 value, 2^-1074
MinExp == -1074

\* ------------------------------------------------------------------------
\* Generic helpers
\* ------------------------------------------------------------------------
Min(a, b) == IF a <= b THEN a ELSE b

Max(a, b) == IF a >= b THEN a ELSE b

Abs(a) == IF a < 0 THEN -a ELSE a

RECURSIVE Gcd(_, _)
Gcd(a, b) == IF b = 0 THEN a ELSE Gcd(b, a % b)

RECURSIVE Pow2(_)
Pow2(k) == IF k <= 0 THEN 1 ELSE 2 * Pow2(k - 1)

\* s[:k] of Python, k >= 0
Take(s, k) == SubSeq(s, 1, Min(k, Len(s)))

\* s[k:] of Python for a 0-based k >= 0
Drop(s, k) == SubSeq(s, k + 1, Len(s))

\* s itself, enumerated once into an explicit tuple
Tuple(s) == s \o << >>

RECURSIVE SumSeq(_)
SumSeq(s) == IF s = << >> THEN 0 ELSE Head(s) + SumSeq(Tail(s))

RECURSIVE MaxSeq(_)
MaxSeq(s) == IF Len(s) = 1 THEN s[1] ELSE Max(Head(s), MaxSeq(Tail(s)))

RECURSIVE MinSeq(_)
MinSeq(s) == IF Len(s) = 1 THEN s[1] ELSE Min(Head(s), MinSeq(Tail(s)))

\* ------------------------------------------------------------------------
\* Exact rationals (torch float tensors holding sums of products)
\* ------------------------------------------------------------------------
Rat(n, d) == LET g == Gcd(Abs(n), d) IN [n |-> n \div g, d |-> d \div g]

RatInt(n) == [n |-> n, d |-> 1]

RatAdd(a, b) ==
  LET g == Gcd(a.d, b.d)
  IN Rat(a.n * (b.d \div g) + b.n * (a.d \div g), (a.d \div g) * b.d)

RatMulInt(a, k) == Rat(a.n * k, a.d)

RatDivInt(a, k) == Rat(a.n, a.d * k)

RatLeq(a, b) == a.n * b.d <= b.n * a.d

RECURSIVE RatSum(_)
RatSum(s) == IF s = << >> THEN RatInt(0) ELSE RatAdd(Head(s), RatSum(Tail(s)))

\* ------------------------------------------------------------------------
\* binary64 values that are zero or a power of two: [zero, exp]
\* ------------------------------------------------------------------------
F(e) == [zero |-> FALSE, exp |-> e]

FZero == [zero |-> TRUE, exp |-> 0]

\* a * b in binary64.  A product below 2^MinExp is at most half the
\* smallest subnormal and rounds (to nearest, ties to even) to 0.0.  No
\* factor of the model exceeds 4.0, so no product overflows.
FMul(a, b) ==
  IF a.zero \/ b.zero THEN FZero
  ELSE IF a.exp + b.exp < MinExp THEN FZero
  ELSE F(a.exp + b.exp)

\* ------------------------------------------------------------------------
\* Text: str.strip, str.split(' '), float(token), str(number), ' '.join
\* ------------------------------------------------------------------------
DigitChars == <<"0", "1", "2", "3", "4", "5", "6", "7", "8", "9">>

IsDigit(c) == \E i \in 1..10 : DigitChars[i] = c

DigitVal(c) == (CHOOSE i \in 1..10 : DigitChars[i] = c) - 1

IsSpace(c) == c \in {" ", "\n", "\t"}

RECURSIVE LStrip(_)
LStrip(s) == IF s # << >> /\ IsSpace(Head(s)) THEN LStrip(Tail(s)) ELSE s

RECURSIVE RStrip(_)
RStrip(s) ==
  IF s # << >> /\ IsSpace(s[Len(s)]) THEN RStrip(SubSeq(s, 1, Len(s) - 1)) ELSE s

\* str.strip()
Strip(s) == RStrip(LStrip(s))

\* str.split(sep) for a one-character sep: every occurrence cuts, so two
\* adjacent separators give an empty token and '' gives ['']
RECURSIVE SplitAcc(_, _, _)
SplitAcc(s, sep, cur) ==
  IF s = << >> THEN <<cur>>
  ELSE IF Head(s) = sep THEN <<cur>> \o SplitAcc(Tail(s), sep, << >>)
  ELSE SplitAcc(Tail(s), sep, Append(cur, Head(s)))

Split(s, sep) == SplitAcc(s, sep, << >>)

AllDigits(s) == s # << >> /\ \A i \in 1..Len(s) : IsDigit(s[i])

RECURSIVE DigitsVal(_)
DigitsVal(s) ==
  IF s = << >> THEN 0 ELSE 10 * DigitsVal(SubSeq(s, 1, Len(s) - 1)) + DigitVal(s[Len(s)])

\* The tokens float() accepts here: [-]digits[.digits]
Unsigned(tok) == IF tok # << >> /\ Head(tok) = "-" THEN Tail(tok) ELSE tok

IsFloat(tok) ==
  LET parts == Split(Unsigned(tok), ".")
  IN /\ Len(parts) \in {1, 2}
     /\ \A i \in 1..Len(parts) : AllDigits(parts[i])

\* float(token); the model's numerals have an all-zero fraction
FloatVal(tok) ==
  LET v == DigitsVal(Split(Unsigned(tok), ".")[1])
  IN IF tok # << >> /\ Head(tok) = "-" THEN -v ELSE v

RECURSIVE Digits(_)
Digits(n) ==
  IF n < 10 THEN <<DigitChars[n + 1]>> ELSE Digits(n \div 10) \o <<DigitChars[(n % 10) + 1]>>

\* str(x) of a numpy float32 holding an integer value: "1.0", "-2.0"
Str(v) == (IF v < 0 THEN <<"-">> ELSE << >>) \o Digits(Abs(v)) \o <<".", "0">>

\* sep.join(tokens)
RECURSIVE Join(_, _)
Join(toks, sep) ==
  IF toks = << >> THEN << >>
  ELSE IF Len(toks) = 1 THEN toks[1]
  ELSE toks[1] \o sep \o Join(Tail(toks), sep)

\* A text file is [exists, lines, cur]: its complete lines, without their
\* "\n", and the characters after the last "\n".
NoFile == [exists |-> FALSE, lines |-> << >>, cur |-> << >>]

EmptyFile == [exists |-> TRUE, lines |-> << >>, cur |-> << >>]

\* f.write(text)
RECURSIVE Write(_, _)
Write(f, text) ==
  IF text = << >> \/ ~f.exists THEN f
  ELSE IF Head(text) = "\n"
       THEN Write([f EXCEPT !.lines = Append(f.lines, f.cur), !.cur = << >>], Tail(text))
  ELSE Write([f EXCEPT !.cur = Append(f.cur, Head(text))], Tail(text))

\* f.readlines(): the lines, each with its "\n", and an unterminated rest
ReadLines(f) ==
  [i \in 1..Len(f.lines) |-> Append(f.lines[i], "\n")]
    \o (IF f.cur = << >> THEN << >> ELSE <<f.cur>>)

\* str.split() with no argument: runs of whitespace separate, no empty token
RECURSIVE WordsAcc(_, _)
WordsAcc(s, cur) ==
  IF s = << >> THEN (IF cur = << >> THEN << >> ELSE <<cur>>)
  ELSE IF IsSpace(Head(s))
       THEN (IF cur = << >> THEN << >> ELSE <<cur>>) \o WordsAcc(Tail(s), << >>)
  ELSE WordsAcc(Tail(s), Append(cur, Head(s)))

Words(s) == WordsAcc(s, << >>)

\* ------------------------------------------------------------------------
\* State
\* ------------------------------------------------------------------------
VARIABLES
  net,               \* "none" | "ok" | "failed": outcome of FBNet.__init__
  blocks,            \* FBNet._blocks: [isList, n] per element
  input_conv_count,  \* FBNet._input_conv_count
  theta,      \* FBNet.theta (shared with Trainer.theta and t_opt)
  speed,             \* FBNet._speed: the lines of the latency file
  batch_size,        \* FBNet.batch_size
  fwd,               \* outcome of the last FBNet.forward call
  rng,               \* state of torch's random generator
  w,                 \* the network weights (parameters of w_opt)
  grad_w,            \* .grad of the network weights
  grad_t,            \* .grad of the theta vectors
  temp,              \* Trainer.temp
  meters,            \* Trainer._loss_avg, _acc_avg, _ce_avg, _lat_avg
  sche,              \* number of w_sche.step() calls
  files,             \* the theta output files, by epoch number in the path
  pc,                \* position of Trainer.search
  args,              \* arguments of the running search, interpreter
  epoch,             \* loop variable of search
  step,              \* loop variable of search
  trace,             \* history: the operations performed, in order
  last,              \* history: the last public call and its arguments
  calls              \* history: number of direct calls made

vars == <<net, blocks, input_conv_count, theta, speed, batch_size, fwd, rng,
          w, grad_w, grad_t, temp, meters, sche, files, pc, args, epoch, step,
          trace, last, calls>>

netVars == <<net, blocks, input_conv_count, theta, speed>>

trainerVars == <<w, grad_w, grad_t, temp, meters, sche, files, pc, args, epoch,
                 step>>

\* ------------------------------------------------------------------------
\* FBNet.__init__
\* ------------------------------------------------------------------------
Module == [isList |-> FALSE, n |-> 0]

Group(k) == [isList |-> TRUE, n |-> k]

\* number of leading nn.Module elements of a block sequence (loops at
\* lines 51-56 and 68-73)
RECURSIVE LeadingModules(_)
LeadingModules(bs) ==
  IF bs = << >> \/ Head(bs).isList THEN 0 ELSE 1 + LeadingModules(Tail(bs))

\* number of leading candidate lists (the forward loop, lines 87-106)
RECURSIVE LeadingLists(_)
LeadingLists(bs) ==
  IF bs = << >> \/ ~Head(bs).isList THEN 0 ELSE 1 + LeadingLists(Tail(bs))

\* the candidate lists of a block sequence, wherever they are (lines 59-66)
RECURSIVE Lists(_)
Lists(bs) ==
  IF bs = << >> THEN << >>
  ELSE IF Head(bs).isList THEN <<Head(bs)>> \o Lists(Tail(bs))
  ELSE Lists(Tail(bs))

\* theta = nn.Parameter(torch.ones((num_block,))); init_func(theta)
InitTheta(bs, init_theta) ==
  LET ls == Lists(bs)
  IN [l \in 1..Len(ls) |-> [i \in 1..ls[l].n |-> init_theta]]

\* assert len(self.theta) == 22
GroupCountOKMutant(th) == Len(th) >= NumGroups

GroupCountOK(th) == Len(th) = NumGroups

\* with open(speed_f, 'r') as f: self._speed = f.readlines()
\* A file is [exists, text]; open() of a missing file raises.
LoadSpeedEager(f) ==
  IF ~f.exists THEN [ok |-> FALSE, lines |-> << >>]
  ELSE LET ls == ReadLines(f)
       IN [ok |-> \A r \in 1..Len(ls) :
                     LET toks == Split(Strip(ls[r]), " ")
                     IN \A t \in 1..Len(toks) : IsFloat(toks[t]),
           lines |-> ls]

LoadSpeed(f) ==
  IF ~f.exists THEN [ok |-> FALSE, lines |-> << >>]
  ELSE [ok |-> TRUE, lines |-> ReadLines(f)]

FBNetInit(bs, init_theta, speed_f) ==
  /\ net = "none"
  /\ LET th == InitTheta(bs, init_theta)
         ld == LoadSpeed(speed_f)
     IN IF GroupCountOK(th) /\ ld.ok
        THEN /\ net' = "ok"
             /\ blocks' = bs
             /\ input_conv_count' = LeadingModules(bs)
             /\ theta' = th
             /\ speed' = ld.lines
        ELSE /\ net' = "failed"
             /\ UNCHANGED <<blocks, input_conv_count, theta, speed>>
  /\ last' = [op |-> "init", groups |-> Len(Lists(bs)), file |-> speed_f]
  /\ UNCHANGED <<batch_size, fwd, rng, calls, trace>>
  /\ UNCHANGED trainerVars

\* ------------------------------------------------------------------------
\* FBNet.forward and MixedOp.forward
\* ------------------------------------------------------------------------
\* Gumbel noise of example b, layer l, candidate i under a random seed
Gumbel(seed, l, b, i) == (seed + l + b * i) % 2

\* nn.functional.gumbel_softmax(t, temperature) for one example: a softmax
\* of the perturbed logits, here to base 2.  The result has the length of
\* theta, positive entries, and sums to one.
GumbelSoftmax(t, g) ==
  LET y == Tuple([i \in 1..Len(t) |-> t[i] + g[i]])
      lo == MinSeq(y)
      e == Tuple([i \in 1..Len(t) |-> Pow2(y[i] - lo)])
      total == SumSeq(e)
  IN Tuple([i \in 1..Len(t) |-> Rat(e[i], total)])

\* speed = self._speed[theta_idx].strip().split(' ')[:blk_len]
SpeedTokens(line, blk_len) == Take(Split(Strip(line), " "), blk_len)

\* torch broadcasting of two rows of lengths m and k
Broadcastable(m, k) == m = k \/ m = 1 \/ k = 1

\* (weight * speed) for one example, then summed over the candidates
MulSum(wt, sp) ==
  LET m == Len(wt)
      k == Len(sp)
  IN RatSum(Tuple([j \in 1..Max(m, k) |->
               RatMulInt(wt[IF m = 1 THEN 1 ELSE j], sp[IF k = 1 THEN 1 ELSE j])]))

\* MixedOp.forward(x, weights): sum_i weights[..., i] * op_i(x).  The
\* blocks are opaque, so the output is represented by the coefficient each
\* block's output gets; weights[..., i] raises when i is out of range.
MixedOpForward(nops, wt) ==
  IF Len(wt) < nops THEN [ok |-> FALSE, coef |-> << >>]
  ELSE [ok |-> TRUE, coef |-> [i \in 1..nops |-> wt[i]]]

\* theta_list is [given, list]; None is [given |-> FALSE]
ThetaUsedStored(tl, idx) ==
  IF idx <= Len(theta) THEN [ok |-> TRUE, t |-> theta[idx]]
  ELSE [ok |-> FALSE, t |-> << >>]

ThetaUsed(tl, idx) ==
  IF ~tl.given THEN [ok |-> TRUE, t |-> theta[idx]]
  ELSE IF idx <= Len(tl.list) THEN [ok |-> TRUE, t |-> tl.list[idx]]
  ELSE [ok |-> FALSE, t |-> << >>]

\* one iteration of the loop at lines 87-104, for layer idx (1-based)
Layer(idx, B, tl, seed) ==
  LET blk_len == blocks[input_conv_count + idx].n
      th == ThetaUsed(tl, idx)
      weight == Tuple([b \in 1..B |->
                   GumbelSoftmax(th.t, [i \in 1..Len(th.t) |-> Gumbel(seed, idx, b, i)])])
      toks == SpeedTokens(speed[idx], blk_len)
      sp == Tuple([j \in 1..Len(toks) |-> FloatVal(toks[j])])
      mix == Tuple([b \in 1..B |-> MixedOpForward(blk_len, weight[b])])
  IN IF ~th.ok THEN [ok |-> FALSE, err |-> "IndexError"]
     ELSE IF idx > Len(speed) THEN [ok |-> FALSE, err |-> "IndexError"]
     ELSE IF \E j \in 1..Len(toks) : ~IsFloat(toks[j])
          THEN [ok |-> FALSE, err |-> "ValueError"]
     ELSE IF ~Broadcastable(Len(th.t), Len(sp)) THEN [ok |-> FALSE, err |-> "shape"]
     ELSE IF \E b \in 1..B : ~mix[b].ok THEN [ok |-> FALSE, err |-> "IndexError"]
     ELSE [ok |-> TRUE, err |-> "",
           weight |-> weight,
           lat |-> RatSum(Tuple([b \in 1..B |-> MulSum(weight[b], sp)])),
           coef |-> Tuple([b \in 1..B |-> mix[b].coef])]

\* self.lat_loss = torch.sum(lat) / batch_size
LatLossMutant(lat, B) == RatDivInt(RatSum(lat), Len(lat))

LatLoss(lat, B) == RatDivInt(RatSum(lat), B)

\* The whole forward pass.  ce and ncorrect are what the opaque blocks and
\* the classifier make of the batch; alpha = beta = 1.
Forward(B, temperature, tl, seed, ce, ncorrect) ==
  LET nl == LeadingLists(Drop(blocks, input_conv_count))
      ls == Tuple([idx \in 1..nl |-> Layer(idx, B, tl, seed)])
      bad == {idx \in 1..nl : ~ls[idx].ok}
  IN IF bad # {}
     THEN [ok |-> FALSE, err |-> ls[CHOOSE i \in bad : \A j \in bad : i <= j].err,
           at |-> CHOOSE i \in bad : \A j \in bad : i <= j]
     ELSE LET lat == Tuple([idx \in 1..nl |-> ls[idx].lat])
              lat_loss == LatLoss(lat, B)
          IN [ok |-> TRUE, err |-> "", at |-> 0,
              temperature |-> temperature,
              weight |-> [idx \in 1..nl |-> ls[idx].weight],
              lat |-> lat,
              coef |-> [idx \in 1..nl |-> ls[idx].coef],
              ce |-> RatInt(ce),
              lat_loss |-> lat_loss,
              loss |-> RatAdd(RatInt(ce), lat_loss),
              acc |-> Rat(ncorrect, B)]

\* ------------------------------------------------------------------------
\* Inputs of the network's construction and forward pass
\* ------------------------------------------------------------------------
\* Candidate-group sizes: all 2; alternating 2 and 3; a first group of 1
GroupSize(p, i) ==
  CASE p = 1 -> 2
    [] p = 2 -> IF i % 2 = 1 THEN 2 ELSE 3
    [] OTHER -> IF i = 1 THEN 1 ELSE 2

\* input stem, G candidate groups, output stem
BlocksOf(G, p) == <<Module>> \o [i \in 1..G |-> Group(GroupSize(p, i))] \o <<Module>>

BlockInputs == {BlocksOf(G, p) : G \in {NumGroups - 1, NumGroups, NumGroups + 1}, p \in 1..3}

GoodLine == <<"1", " ", "3", " ", "7">>

SpeedLines ==
  { GoodLine,
    <<"5">>,
    <<"1", " ", "3">>,
    <<"x", " ", "3", " ", "7">>,
    <<"-", "1", " ", "3", " ", "7">>,
    <<"1", " ", "3", " ", "x">>,
    << >>,
    <<"1", " ", " ", "3">> }

\* a latency file of R lines, all GoodLine but line idx
FileText(R, idx, line) ==
  [exists |-> TRUE, lines |-> [r \in 1..R |-> IF r = idx THEN line ELSE GoodLine],
   cur |-> << >>]

SpeedFiles ==
  {NoFile}
  \cup {FileText(R, 0, GoodLine) : R \in {NumGroups - 1, NumGroups + 1}}
  \cup {FileText(NumGroups, idx, line) : idx \in {1, NumGroups}, line \in SpeedLines}

NoTheta == [given |-> FALSE, list |-> << >>]

\* theta lists a caller may pass: of the network's shapes with other
\* values, one entry longer, one entry only, one vector short
OtherTheta ==
  LET ls == Lists(blocks)
  IN [given |-> TRUE,
      list |-> [l \in 1..Len(ls) |-> [i \in 1..ls[l].n |-> 2 + ((l + i) % 2)]]]

ThetaLists ==
  LET ls == Lists(blocks)
      G == Len(ls)
  IN { NoTheta,
       OtherTheta,
       [given |-> TRUE, list |-> [l \in 1..G |-> [i \in 1..(ls[l].n + 1) |-> 2]]],
       [given |-> TRUE, list |-> [l \in 1..G |-> <<2>>]],
       [given |-> TRUE, list |-> [l \in 1..(G - 1) |-> [i \in 1..ls[l].n |-> 2]]] }

\* what the opaque blocks and classifier return for a batch of B examples:
\* a cross-entropy value and the number of correct predictions
Opaque(B) == {[ce |-> 0, ncorrect |-> B], [ce |-> 2, ncorrect |-> 0]}

NoForward == [ok |-> FALSE, err |-> "not called", at |-> 0]

\* ------------------------------------------------------------------------
\* Specification of the network alone: construction, then forward passes
\* ------------------------------------------------------------------------
Construct ==
  \E bs \in BlockInputs, f \in SpeedFiles : FBNetInit(bs, 1, f)

\* FBNet.forward(input, target, temperature, theta_list) on a batch of B
\* examples; the Gumbel noise comes from the random generator
FBNetForward(B, temperature, tl, o) ==
  /\ batch_size' = B
  /\ fwd' = Forward(B, temperature, tl, rng, o.ce, o.ncorrect)
  /\ rng' = (rng + 1) % NoiseSeeds

\* The first forward pass of a constructed network (a later one meets the
\* same network: forward changes nothing it reads but the generator).
ForwardCall ==
  /\ net = "ok"
  /\ fwd = NoForward
  /\ \E B \in 1..MaxBatch, tl \in ThetaLists :
       \E o \in Opaque(B) :
         /\ FBNetForward(B, F(2), tl, o)
         /\ last' = [op |-> "forward", B |-> B, tl |-> tl, seed |-> rng, o |-> o]
  /\ UNCHANGED netVars
  /\ UNCHANGED trainerVars
  /\ UNCHANGED <<calls, trace>>

NoTrainer ==
  /\ w = 0 /\ grad_w = 0 /\ grad_t = 0 /\ temp = FZero /\ meters = << >>
  /\ sche = 0 /\ files = << >> /\ pc = "none" /\ args = << >> /\ epoch = 0
  /\ step = 0

InitNet ==
  /\ net = "none"
  /\ blocks = << >>
  /\ input_conv_count = 0
  /\ theta = << >>
  /\ speed = << >>
  /\ batch_size = 0
  /\ fwd = NoForward
  /\ rng \in 0..(NoiseSeeds - 1)
  /\ last = [op |-> "none"]
  /\ calls = 0
  /\ trace = << >>
  /\ NoTrainer

NextNet == Construct \/ ForwardCall

SpecNet == InitNet /\ [][NextNet]_vars

\* ------------------------------------------------------------------------
\* Properties of the network (checked under SpecNet)
\* ------------------------------------------------------------------------
\* number of searchable layers the forward pass runs
NumLayers == LeadingLists(Drop(blocks, input_conv_count))

BlkLen(idx) == blocks[input_conv_count + idx].n

\* the tokens of layer idx's latency row, all of them
RowTokens(idx) == Split(Strip(speed[idx]), " ")

\* every row a forward pass parses holds only numerals in the part it reads
TableParses ==
  \A idx \in 1..Min(NumLayers, Len(speed)) :
    \A j \in 1..Min(BlkLen(idx), Len(RowTokens(idx))) : IsFloat(RowTokens(idx)[j])

\* C2: construction succeeds only with exactly 22 candidate groups; with any
\* other count it fails and no network is produced.
C2_ExactlyNumGroups ==
  /\ net = "ok" => Len(Lists(blocks)) = NumGroups /\ Len(theta) = NumGroups
  /\ (last.op = "init" /\ last.groups # NumGroups) =>
       (net = "failed" /\ blocks = << >> /\ theta = << >>)

C2_Witness ==
  /\ net = "failed"
  /\ last.op = "init"
  /\ last.groups = NumGroups + 1
  /\ last.file.exists
  /\ \A r \in 1..Len(last.file.lines) : last.file.lines[r] = GoodLine

C5_ThetaListOverrides ==
  [][(last'.op = "forward" /\ last'.tl.given) =>
       /\ theta' = theta
       /\ fwd'.ok =>
            \A idx \in 1..NumLayers : \A b \in 1..last'.B :
              /\ idx <= Len(last'.tl.list)
              /\ fwd'.weight[idx][b] =
                   GumbelSoftmax(last'.tl.list[idx],
                                 [i \in 1..Len(last'.tl.list[idx]) |->
                                    Gumbel(last'.seed, idx, b, i)])]_vars

C5_Witness ==
  /\ last.op = "forward"
  /\ last.tl.given
  /\ fwd.ok
  /\ \A idx \in 1..NumLayers :
       /\ Len(last.tl.list[idx]) = Len(theta[idx])
       /\ last.tl.list[idx] # theta[idx]
       /\ fwd.weight[idx] # [b \in 1..last.B |->
            GumbelSoftmax(theta[idx], [i \in 1..Len(theta[idx]) |-> Gumbel(last.seed, idx, b, i)])]

\* the theta vector the last forward pass used for layer idx
UsedTheta(idx) == IF last.tl.given THEN last.tl.list[idx] ELSE theta[idx]

\* layer idx's latency row or theta vector does not match its candidates
Mismatch(idx) ==
  \/ Len(RowTokens(idx)) < BlkLen(idx)
  \/ Len(UsedTheta(idx)) # BlkLen(idx)

\* C9: a mismatch between a layer's candidate count and its latency row or
\* theta vector is fatal: no forward pass returns a result for such a
\* network.
C9_MismatchIsFatal ==
  (last.op = "forward" /\ fwd.ok) => \A idx \in 1..NumLayers : ~Mismatch(idx)

\* dot product of two sequences of one length, weights rational
RECURSIVE Dot(_, _)
Dot(wt, vals) ==
  IF wt = << >> THEN RatInt(0)
  ELSE RatAdd(RatMulInt(Head(wt), Head(vals)), Dot(Tail(wt), Tail(vals)))

IsDistribution(wt) ==
  /\ \A i \in 1..Len(wt) : wt[i].n >= 0
  /\ RatSum(wt) = RatInt(1)

\* the first candidate-count values of layer idx's row
RowValues(idx) ==
  LET toks == Take(RowTokens(idx), BlkLen(idx))
  IN [j \in 1..Len(toks) |-> FloatVal(toks[j])]

\* C10: with non-negative weights summing to 1, a layer's latency
\* contribution for an example is the dot product of the weights with the
\* first candidate-count values of its row and lies between 0 and the
\* row's maximum (latencies being non-negative); the returned latency loss
\* is the sum of the contributions over layers and batch, divided by the
\* batch size.
C10_LatencyIsExpectedCost ==
  (last.op = "forward" /\ fwd.ok) =>
    /\ \A idx \in 1..NumLayers :
         (~Mismatch(idx) /\ \A b \in 1..last.B : IsDistribution(fwd.weight[idx][b])) =>
           /\ fwd.lat[idx] =
                RatSum([b \in 1..last.B |-> Dot(fwd.weight[idx][b], RowValues(idx))])
           /\ (\A j \in 1..BlkLen(idx) : RowValues(idx)[j] >= 0) =>
                \A b \in 1..last.B :
                  LET c == Dot(fwd.weight[idx][b], RowValues(idx))
                  IN /\ RatLeq(RatInt(0), c)
                     /\ RatLeq(c, RatInt(MaxSeq(RowValues(idx))))
    /\ fwd.lat_loss = RatDivInt(RatSum(fwd.lat), last.B)
    /\ batch_size = last.B

C10_Witness ==
  /\ last.op = "forward"
  /\ fwd.ok
  /\ last.B = 2
  /\ \A idx \in 1..NumLayers : ~Mismatch(idx) /\ BlkLen(idx) >= 2
  /\ \E idx \in 1..NumLayers : fwd.weight[idx][1] # fwd.weight[idx][2]
  /\ RatLeq(RatInt(1), fwd.lat_loss)

\* ------------------------------------------------------------------------
\* Trainer: optimizers, train_w, train_t, decay_temperature
\* ------------------------------------------------------------------------
\* init_temperature and temperature_decay of Trainer.__init__, here 4.0 and
\* 0.5
InitTemperature == F(2)

TemDecay == F(-1)

\* The parameters each optimizer holds.  network.parameters() yields the
\* registered parameters; FBNet.theta is a plain list of nn.Parameter, not
\* an nn.ParameterList, so it is not among them.
WOptParamsMutant == {"w", "theta"}

WOptParams == {"w"}

TOptParams == {"theta"}

\* the direction in which a unit gradient moves theta
ThetaDir(l, i) == IF i = 1 THEN 1 ELSE 0

Sgn(a) == IF a > 0 THEN 1 ELSE IF a < 0 THEN -1 ELSE 0

\* loss.backward() on theta: the batch pulls the first entry of every
\* vector towards item.tgt, and there is no gradient once it is there
ThetaGrad(item) == Sgn(theta[1][1] - item.tgt)

\* opt.zero_grad(); loss.backward(); opt.step(): the gradients of the
\* optimizer's parameters are cleared, backward adds the batch's gradients to
\* every parameter's .grad, and the optimizer moves its own parameters only
Optimize(params, item) ==
  LET gw == (IF "w" \in params THEN 0 ELSE grad_w) + item.gw
      gt == (IF "theta" \in params THEN 0 ELSE grad_t) + ThetaGrad(item)
  IN /\ grad_w' = gw
     /\ grad_t' = gt
     /\ w' = IF "w" \in params THEN w - gw ELSE w
     /\ theta' = IF "theta" \in params
                 THEN [l \in 1..Len(theta) |->
                         [i \in 1..Len(theta[l]) |-> theta[l][i] - gt * ThetaDir(l, i)]]
                 ELSE theta

\* the body shared by train_w and train_t (lines 178-186 and 191-199)
Train(params, item, decay_temperature) ==
  /\ FBNetForward(item.B, temp, NoTheta, item)
  /\ Optimize(params, item)
  /\ temp' = IF decay_temperature THEN FMul(temp, TemDecay) ELSE temp

TrainW(item, decay_temperature) == Train(WOptParams, item, decay_temperature)

TrainT(item, decay_temperature) == Train(TOptParams, item, decay_temperature)

\* decay_temperature(decay_ratio); None is [given |-> FALSE]
NoRatio == [given |-> FALSE, r |-> FZero]

DecayFactorMutant(decay_ratio) == TemDecay

DecayFactor(decay_ratio) == IF ~decay_ratio.given THEN TemDecay ELSE decay_ratio.r

DecayTemperature(decay_ratio) == temp' = FMul(temp, DecayFactor(decay_ratio))

\* ------------------------------------------------------------------------
\* Trainer.save_theta
\* ------------------------------------------------------------------------
\* open(save_path, 'w'): the file is created or truncated
OpenWMutant(old) == IF old.exists THEN old ELSE EmptyFile

OpenW(old) == EmptyFile

\* s = ' '.join([str(tmp) for tmp in t_list])
ThetaLine(t) == Join([i \in 1..Len(t) |-> Str(t[i])], <<" ">>)

\* for t in self.theta: f.write(s + '\n'); on an open file f.exists holds
RECURSIVE WriteTheta(_, _)
WriteTheta(f, th) ==
  IF th = << >> \/ ~f.exists THEN f
  ELSE WriteTheta(Write(f, Append(ThetaLine(Head(th)), "\n")), Tail(th))

\* save_theta(save_path) with theta as it is after this step
SaveTheta(path, th) ==
  files' = [files EXCEPT ![path] = WriteTheta(OpenW(files[path]), Tuple(th))]

\* ------------------------------------------------------------------------
\* Trainer._step and the running averages
\* ------------------------------------------------------------------------
\* utils.AvgrageMeter: (sum, cnt), update adds a value, reset empties
EmptyMeter == [sum |-> RatInt(0), cnt |-> 0]

MeterUpdate(m, val) == [sum |-> RatAdd(m.sum, val), cnt |-> m.cnt + 1]

MeterNames == {"loss", "acc", "ce", "lat"}

FreshMeters == [k \in MeterNames |-> EmptyMeter]

\* self._acc_avg.update(acc) ... self._loss_avg.update(loss)
UpdateAll(ms, r) ==
  [k \in MeterNames |->
     MeterUpdate(ms[k], CASE k = "loss" -> r.loss
                          [] k = "acc" -> r.acc
                          [] k = "ce" -> r.ce
                          [] OTHER -> r.lat_loss)]

\* if step > 1 and (step % log_frequence == 0)
Flushes(st, log_frequence) == st > 1 /\ st % log_frequence = 0

\* map(lambda avg: avg.reset(), [...]) as a statement: Python 2's map calls
\* reset on each meter, Python 3's map builds an iterator nobody consumes
ResetAll(ms, eager_map) == IF eager_map THEN FreshMeters ELSE ms

\* _step(input, target, epoch, step, log_frequence, func) after func has
\* run and returned fwd'
StepMeters(st, log_frequence, eager_map) ==
  LET updated == UpdateAll(meters, fwd')
  IN meters' = IF Flushes(st, log_frequence) THEN ResetAll(updated, eager_map)
               ELSE updated

\* the line _step logs when it flushes: count and sum of each average
Logged(st, log_frequence) ==
  IF Flushes(st, log_frequence) THEN UpdateAll(meters, fwd') ELSE << >>

\* ------------------------------------------------------------------------
\* Inputs of the Trainer
\* ------------------------------------------------------------------------
\* A batch, with what the opaque blocks, classifier and autograd make of
\* it: its size, cross-entropy, number of correct predictions, the
\* gradient backward adds to the weights and where it pulls theta.
ItemA == [B |-> 1, ce |-> 2, ncorrect |-> 0, gw |-> 1, tgt |-> 0]

ItemB == [B |-> 1, ce |-> 0, ncorrect |-> 1, gw |-> -1, tgt |-> 1]

\* a data iterator of n batches, in a stable order
Dataset(n) == [i \in 1..n |-> IF i % 2 = 1 THEN ItemA ELSE ItemB]

\* the paths save_theta writes: 0 is its default 'theta.txt', k >= 1 is
\* './theta-result/<prefix>_theta_epoch_<k>.txt'
Paths == 0..(MaxStartW + MaxTotalEpoch)

NoArgs ==
  [train_w_ds |-> << >>, train_t_ds |-> << >>, total_epoch |-> 0,
   start_w_epoch |-> 0, log_frequence |-> 0]

\* the state after FBNet(...) on a valid block list and latency file and
\* Trainer(network, init_temperature=4.0, temperature_decay=0.5)
TrainerInit ==
  /\ net = "ok"
  /\ blocks = BlocksOf(NumGroups, 2)
  /\ input_conv_count = LeadingModules(blocks)
  /\ theta = InitTheta(blocks, 1)
  /\ speed = ReadLines(FileText(NumGroups, 0, GoodLine))
  /\ batch_size = 0
  /\ fwd = NoForward
  /\ rng = 0
  /\ w = 0
  /\ grad_w = 0
  /\ grad_t = 0
  /\ temp = InitTemperature
  /\ meters = FreshMeters
  /\ sche = 0
  /\ files = [p \in Paths |-> NoFile]
  /\ pc = "idle"
  /\ \E eager_map \in BOOLEAN : args = [call |-> NoArgs, eager_map |-> eager_map]
  /\ epoch = 0
  /\ step = 0
  /\ trace = << >>
  /\ last = [op |-> "none"]
  /\ calls = 0

\* ------------------------------------------------------------------------
\* Trainer.search
\* ------------------------------------------------------------------------
\* the decay_temperature argument of the lambdas search passes to _step
SearchDecayFlag == FALSE

\* what one training call adds to the history
TrainEvents(func, st, decay_temperature) ==
  <<<<func, st>>>> \o (IF decay_temperature THEN <<<<"decay", 0>>>> ELSE << >>)

\* self._step(input, target, ep, st, log_frequence, lambda x, y: func(x, y, False))
Step(func, item, ep, st) ==
  /\ IF func = "train_w" THEN TrainW(item, SearchDecayFlag)
     ELSE TrainT(item, SearchDecayFlag)
  /\ StepMeters(st, args.call.log_frequence, args.eager_map)

StepInfo(func, ep, st, saved) ==
  [op |-> "_step", func |-> func, epoch |-> ep, step |-> st,
   flushed |-> Flushes(st, args.call.log_frequence),
   logged |-> Logged(st, args.call.log_frequence),
   saved |-> saved]

\* search(train_w_ds, train_t_ds, total_epoch, start_w_epoch, log_frequence)
\* up to its first loop: assert start_w_epoch >= 1
SearchCall ==
  /\ pc = "idle"
  /\ \E nw \in 1..MaxData, nt \in 1..MaxData, E \in 0..MaxTotalEpoch,
        s \in 0..MaxStartW, lf \in 1..MaxLogFreq :
       /\ args' = [args EXCEPT !.call =
                     [train_w_ds |-> Dataset(nw), train_t_ds |-> Dataset(nt),
                      total_epoch |-> E, start_w_epoch |-> s, log_frequence |-> lf]]
       /\ pc' = IF s >= 1 THEN "warm" ELSE "raised"
  /\ epoch' = 0
  /\ step' = 0
  /\ last' = [op |-> "search"]
  /\ UNCHANGED <<netVars, batch_size, fwd, rng, w, grad_w, grad_t, temp, meters,
                 sche, files, trace, calls>>

\* one iteration of the loop at lines 247-253
WarmStep ==
  /\ pc = "warm"
  /\ Step("train_w", args.call.train_w_ds[step + 1], epoch, step)
  /\ sche' = sche + 1
  /\ trace' = trace \o TrainEvents("train_w", step, SearchDecayFlag) \o <<<<"sche", 0>>>>
  /\ last' = StepInfo("train_w", epoch, step, -1)
  /\ IF step + 1 < Len(args.call.train_w_ds)
     THEN /\ step' = step + 1
          /\ UNCHANGED <<epoch, pc>>
     ELSE IF epoch + 1 < args.call.start_w_epoch
     THEN /\ step' = 0
          /\ epoch' = epoch + 1
          /\ UNCHANGED pc
     ELSE /\ step' = 0
          /\ epoch' = 0
          /\ pc' = IF args.call.total_epoch > 0 THEN "theta" ELSE "done"
  /\ UNCHANGED <<net, blocks, input_conv_count, speed, files, args, calls>>

\* whether the pass over train_t_ds ends with step st
ThetaPassEndsMutant(st) == st + 1 >= Len(args.call.train_w_ds)

ThetaPassEnds(st) == st + 1 >= Len(args.call.train_t_ds)

\* one iteration of the loop at lines 259-264
ThetaStep ==
  /\ pc = "theta"
  /\ Step("train_t", args.call.train_t_ds[step + 1], epoch + args.call.start_w_epoch, step)
  /\ SaveTheta(epoch + args.call.start_w_epoch, theta')
  /\ trace' = trace \o TrainEvents("train_t", step, SearchDecayFlag)
                    \o <<<<"save", epoch + args.call.start_w_epoch>>>>
  /\ last' = StepInfo("train_t", epoch + args.call.start_w_epoch, step,
                      epoch + args.call.start_w_epoch)
  /\ IF ThetaPassEnds(step)
     THEN /\ step' = 0
          /\ pc' = "decay"
     ELSE /\ step' = step + 1
          /\ UNCHANGED pc
  /\ UNCHANGED <<net, blocks, input_conv_count, speed, sche, args, epoch, calls>>

\* self.decay_temperature() at line 265
DecayStep ==
  /\ pc = "decay"
  /\ DecayTemperature(NoRatio)
  /\ trace' = Append(trace, <<"decay", 0>>)
  /\ last' = [op |-> "decay_temperature", ratio |-> NoRatio]
  /\ pc' = "w"
  /\ UNCHANGED <<netVars, batch_size, fwd, rng, w, grad_w, grad_t, meters, sche,
                 files, args, epoch, step, calls>>

\* one iteration of the loop at lines 267-271
WStep ==
  /\ pc = "w"
  /\ Step("train_w", args.call.train_w_ds[step + 1], epoch + args.call.start_w_epoch, step)
  /\ sche' = sche + 1
  /\ trace' = trace \o TrainEvents("train_w", step, SearchDecayFlag) \o <<<<"sche", 0>>>>
  /\ last' = StepInfo("train_w", epoch + args.call.start_w_epoch, step, -1)
  /\ IF step + 1 < Len(args.call.train_w_ds)
     THEN /\ step' = step + 1
          /\ UNCHANGED <<epoch, pc>>
     ELSE IF epoch + 1 < args.call.total_epoch
     THEN /\ step' = 0
          /\ epoch' = epoch + 1
          /\ pc' = "theta"
     ELSE /\ step' = 0
          /\ UNCHANGED epoch
          /\ pc' = "done"
  /\ UNCHANGED <<net, blocks, input_conv_count, speed, files, args, calls>>

Next == SearchCall \/ WarmStep \/ ThetaStep \/ DecayStep \/ WStep

Spec == TrainerInit /\ [][Next]_vars

\* ------------------------------------------------------------------------
\* Specification of the Trainer's methods called directly, in any order
\* ------------------------------------------------------------------------
\* decay ratios in (0, 1]: 1.0 and 2^-600; None
Ratios == {NoRatio, [given |-> TRUE, r |-> F(0)], [given |-> TRUE, r |-> F(-600)]}

\* the (batch, decay_temperature) arguments of the direct training calls
TrainCalls == {<<ItemA, FALSE>>, <<ItemA, TRUE>>, <<ItemB, FALSE>>}

Called(info) ==
  /\ calls' = calls + 1
  /\ last' = info
  /\ UNCHANGED <<net, blocks, input_conv_count, speed, sche, pc, args, epoch, step>>

CallTrainW ==
  /\ calls < MaxCalls
  /\ \E c \in TrainCalls :
       /\ TrainW(c[1], c[2])
       /\ trace' = trace \o TrainEvents("train_w", 0, c[2])
       /\ Called([op |-> "train_w", item |-> c[1], decay |-> c[2]])
       /\ UNCHANGED <<meters, files>>

CallTrainT ==
  /\ calls < MaxCalls
  /\ \E c \in TrainCalls :
       /\ TrainT(c[1], c[2])
       /\ trace' = trace \o TrainEvents("train_t", 0, c[2])
       /\ Called([op |-> "train_t", item |-> c[1], decay |-> c[2]])
       /\ UNCHANGED <<meters, files>>

CallDecayTemperature ==
  /\ calls < MaxCalls
  /\ \E decay_ratio \in Ratios :
       /\ DecayTemperature(decay_ratio)
       /\ trace' = Append(trace, <<"decay", 0>>)
       /\ Called([op |-> "decay_temperature", ratio |-> decay_ratio])
       /\ UNCHANGED <<theta, batch_size, fwd, rng, w, grad_w, grad_t, meters, files>>

\* save_theta(); it returns the list of vectors
CallSaveTheta ==
  /\ calls < MaxCalls
  /\ SaveTheta(0, theta)
  /\ trace' = Append(trace, <<"save", 0>>)
  /\ Called([op |-> "save_theta", saved |-> 0, ret |-> theta])
  /\ UNCHANGED <<theta, batch_size, fwd, rng, w, grad_w, grad_t, temp, meters>>

\* a forward pass of the network outside training, with or without a
\* theta list
CallForward ==
  /\ calls < MaxCalls
  /\ \E tl \in {NoTheta, OtherTheta} :
       /\ FBNetForward(ItemA.B, temp, tl, ItemA)
       /\ Called([op |-> "forward", B |-> ItemA.B, tl |-> tl, seed |-> rng, o |-> ItemA])
       /\ UNCHANGED <<theta, w, grad_w, grad_t, temp, meters, files, trace>>

NextAPI ==
  CallTrainW \/ CallTrainT \/ CallDecayTemperature \/ CallSaveTheta \/ CallForward

\* _step is not called here, so the interpreter's map does not matter
InitAPI == TrainerInit /\ ~args.eager_map

SpecAPI == InitAPI /\ [][NextAPI]_vars


\* ------------------------------------------------------------------------
\* Properties of Trainer.search
\* ------------------------------------------------------------------------
RECURSIVE Repeat(_, _)
Repeat(n, seq) == IF n = 0 THEN << >> ELSE seq \o Repeat(n - 1, seq)

\* a full pass over W: train_w then one scheduler step, for each batch
RECURSIVE WPass(_, _)
WPass(from, n) ==
  IF from >= n THEN << >>
  ELSE <<<<"train_w", from>>, <<"sche", 0>>>> \o WPass(from + 1, n)

\* a full pass over T: train_t then a save of theta, for each batch
RECURSIVE TPass(_, _, _)
TPass(from, n, path) ==
  IF from >= n THEN << >>
  ELSE <<<<"train_t", from>>, <<"save", path>>>> \o TPass(from + 1, n, path)

RECURSIVE Epochs(_, _)
Epochs(e, c) ==
  IF e >= c.total_epoch THEN << >>
  ELSE TPass(0, Len(c.train_t_ds), e + c.start_w_epoch) \o <<<<"decay", 0>>>>
         \o WPass(0, Len(c.train_w_ds)) \o Epochs(e + 1, c)

Expected(c) == Repeat(c.start_w_epoch, WPass(0, Len(c.train_w_ds))) \o Epochs(0, c)

IsPrefix(a, b) == Len(a) <= Len(b) /\ SubSeq(b, 1, Len(a)) = a

\* C1: with start_w_epoch = s >= 1, what search has done so far is always
\* an initial part of: s passes over W of (train_w, scheduler step), then
\* total_epoch times (a pass over T of (train_t, save theta), one
\* temperature decay, a pass over W of (train_w, scheduler step)); search
\* returns exactly when the whole sequence has been performed.
C1_SearchSequence ==
  pc \in {"warm", "theta", "decay", "w", "done"} =>
    /\ args.call.start_w_epoch >= 1
    /\ IsPrefix(trace, Expected(args.call))
    /\ (pc = "done" <=> trace = Expected(args.call))

C1_Witness ==
  /\ pc = "done"
  /\ args.call.start_w_epoch = 2
  /\ args.call.total_epoch = 2
  /\ Len(args.call.train_w_ds) = 3
  /\ Len(args.call.train_t_ds) = 2

\* C6: right after a step that flushed the running metrics to a log
\* line, every accumulator is empty again (sum 0, count 0).
C6_FlushResets ==
  (last.op = "_step" /\ last.flushed) => meters = FreshMeters

\* ------------------------------------------------------------------------
\* Properties of the Trainer's methods
\* ------------------------------------------------------------------------
\* C4: a train_w call leaves every theta vector unchanged, a train_t call
\* leaves the weights unchanged, and theta changes only across train_t.
C4_ThetaWrittenOnlyByTrainT ==
  [][/\ last'.op = "train_w" => theta' = theta
     /\ last'.op = "train_t" => w' = w
     /\ theta' # theta => last'.op = "train_t"]_vars

C4_Witness ==
  /\ last.op = "train_w"
  /\ calls = 2
  /\ trace[1][1] = "train_t"
  /\ theta # InitTheta(blocks, 1)
  /\ grad_t # 0
  /\ w # 0

C8_SaveThetaRoundTrip ==
  last.op = "save_theta" =>
    LET f == files[last.saved]
        ls == ReadLines(f)
    IN /\ f.exists
       /\ last.ret = theta
       /\ Len(ls) = Len(theta)
       /\ \A l \in 1..Len(theta) :
            LET toks == Words(ls[l])
            IN /\ l <= Len(ls)
               /\ Len(toks) = Len(theta[l])
               /\ \A i \in 1..Len(toks) :
                    IsFloat(toks[i]) /\ FloatVal(toks[i]) = theta[l][i]

C8_Witness ==
  /\ last.op = "save_theta"
  /\ calls = 3
  /\ trace[1][1] = "save"
  /\ trace[2][1] = "train_t"
  /\ theta # InitTheta(blocks, 1)
  /\ Len(ReadLines(files[0])) = NumGroups

====
